---- MODULE Spec2Model ----
(***************************************************************************)
(* The registry (class Trilogy, src/src/index.ts) and the execution router *)
(* (runQuery, src/unnamed/part_000) as a state machine.                    *)
(*                                                                         *)
(* A call is one invocation of a public method of the registry.  Its       *)
(* synchronous part (up to the first await) is one action; each            *)
(* continuation after an await is one action.  The pool (generic-pool,     *)
(* size one, FIFO) hands the single database handle to the waiting calls.  *)
(***************************************************************************)
EXTENDS Integers, Sequences, FiniteSets, TLC

\* number of registry calls the environment makes
MaxCalls == 3

CallIds == 1..MaxCalls

\* A name or a location string is a sequence of tokens; "." is the separator
\* character of a location ("table.column").
Names == {<<"one">>, <<"two">>}
Locations == Names \cup {<<"one", ".", "x">>}

VARIABLES
    isNative,       \* Trilogy.isNative, fixed at construction
    verbose,        \* Trilogy.verbose: "none" | "ok" | "throws"
    definitions,    \* Trilogy._definitions: sequence of [name, id] in insertion order
    hooks,          \* on-query subscribers of each Model instance
    tables,         \* the database: names of the tables that exist
    rows,           \* the database: number of rows of each table
    rowsModified,   \* the database: counter read by db.getRowsModified()
    storage,        \* bytes last persisted by writeDatabase
    holder,         \* the pool: call that borrowed the handle, 0 when free
    queue,          \* the pool: calls waiting in pool.acquire(), oldest first
    calls,          \* the registry calls and where each one is
    issued,         \* number of runQuery invocations so far
    verboseCalls,   \* number of invocations of the verbose callback
    hookCalls,      \* number of dispatches of the on-query hook
    acqLog,         \* runQuery invocations in the order they called pool.acquire()
    executed,       \* runQuery invocations in the order their statement ran
    dropped,        \* name -> a dropModel(name) resolved true and no model(name) was called since
    firstReg,       \* name -> instance registered by the first model(name) since the last drop, 0 if none
    fn              \* one application of a helper of part_000 to an input: see FnSpec

vars == <<isNative, verbose, definitions, hooks, tables, rows, rowsModified,
          storage, holder, queue, calls, issued, verboseCalls, hookCalls,
          acqLog, executed, dropped, firstReg, fn>>

\* the variables of the registry and of the router
regVars == <<isNative, verbose, definitions, hooks, tables, rows, rowsModified,
             storage, holder, queue, calls, issued, verboseCalls, hookCalls,
             acqLog, executed, dropped, firstReg>>

dbVars == <<tables, rows, rowsModified, storage>>
poolVars == <<holder, queue>>
ghostVars == <<dropped, firstReg>>

----------------------------------------------------------------------------
\* Values

Undefined == <<"undef", 0>>
Bool(b) == <<"bool", IF b THEN 1 ELSE 0>>

IdleCall == [op |-> "", name |-> <<>>, pc |-> "idle", stmt |-> "", need |-> FALSE,
             hooked |-> FALSE, mdl |-> 0, rq |-> 0, threw |-> "", post |-> FALSE,
             res |-> Undefined, list |-> <<>>]

\* the next call the environment makes
NextCall(c) == calls[c].pc = "idle" /\ \A d \in CallIds : d < c => calls[d].pc # "idle"

----------------------------------------------------------------------------
\* Trilogy._definitions (a Map, which keeps insertion order)

DefNames == {definitions[i].name : i \in 1..Len(definitions)}

Has(name) == name \in DefNames

Get(name) == IF Has(name)
             THEN (CHOOSE i \in 1..Len(definitions) : definitions[i].name = name)
             ELSE 0

GetId(name) == IF Has(name) THEN definitions[Get(name)].id ELSE 0

MapSet(name, id) ==
    IF Has(name)
    THEN [definitions EXCEPT ![Get(name)].id = id]
    ELSE Append(definitions, [name |-> name, id |-> id])

MapDelete(name) == SelectSeq(definitions, LAMBDA d : d.name # name)

NewModelId == Cardinality({c \in CallIds : calls[c].op = "model" /\ calls[c].mdl # 0}) + 1

----------------------------------------------------------------------------
\* Location strings: location.split('.', 2)

Dots(loc) == {i \in 1..Len(loc) : loc[i] = "."}

FirstDot(loc) == IF Dots(loc) = {} THEN Len(loc) + 1
                 ELSE CHOOSE i \in Dots(loc) : \A j \in Dots(loc) : i <= j

\* [table, column] = location.split('.', 2): table is the text before the first dot
SplitTable(loc) == SubSeq(loc, 1, FirstDot(loc) - 1)

----------------------------------------------------------------------------
\* Statements.  A statement kind stands for the query the builder renders;
\* FirstWord and HasMarker are what runQuery reads from its text.

Stmts == {"hasTable", "createTable", "dropTable", "insert", "update", "delete", "select"}

\* getQueryAction(asString): the first word of the text, lower-cased
FirstWord(stmt) ==
    CASE stmt = "hasTable" -> "select"
      [] stmt = "createTable" -> "create"
      [] stmt = "dropTable" -> "drop"
      [] OTHER -> stmt

\* asString.toLowerCase().includes(HAS_TABLE_SUBSTRING)
HasMarker(stmt) == stmt = "hasTable"

\* What the engine does with one statement on table t: ok is FALSE when it
\* throws (no such table, table already exists) and the database is unchanged;
\* out is the number of rows of the first result set.
Engine(stmt, t) ==
    LET same == [ok |-> TRUE, tables |-> tables, rows |-> rows,
                 modified |-> rowsModified, out |-> 0]
        fail == [same EXCEPT !.ok = FALSE]
    IN CASE stmt = "hasTable" ->
              [same EXCEPT !.out = IF t \in tables THEN 1 ELSE 0]
         [] stmt = "createTable" ->
              IF t \in tables THEN fail
              ELSE [same EXCEPT !.tables = tables \cup {t}, !.rows = [rows EXCEPT ![t] = 0]]
         [] stmt = "dropTable" ->
              [same EXCEPT !.tables = tables \ {t}, !.rows = [rows EXCEPT ![t] = 0]]
         [] stmt = "insert" ->
              IF t \notin tables THEN fail
              ELSE [same EXCEPT !.rows = [rows EXCEPT ![t] = rows[t] + 1], !.modified = 1]
         [] stmt = "update" ->
              IF t \notin tables THEN fail
              ELSE [same EXCEPT !.modified = rows[t]]
         [] stmt = "delete" ->
              IF t \notin tables THEN fail
              ELSE [same EXCEPT !.rows = [rows EXCEPT ![t] = 0], !.modified = rows[t]]
         [] OTHER ->
              IF t \notin tables THEN fail
              ELSE [same EXCEPT !.out = rows[t]]

\* parseResponse(db.exec(asString)), collapsed to a boolean for a has-table query
ReadResponse(stmt, e) ==
    IF HasMarker(stmt) THEN Bool(e.out > 0) ELSE <<"rows", e.out>>

\* a stale read of the counter: what getRowsModified held before db.run
StaleWriteResponse(stmt, e) ==
    IF FirstWord(stmt) \in {"insert", "update", "delete"}
    THEN <<"num", rowsModified>>
    ELSE Undefined

\* db.run(asString), then db.getRowsModified() for insert, update and delete
WriteResponse(stmt, e) ==
    IF FirstWord(stmt) \in {"insert", "update", "delete"}
    THEN <<"num", e.modified>>
    ELSE Undefined

Response(stmt, need, e) ==
    IF need THEN ReadResponse(stmt, e) ELSE WriteResponse(stmt, e)

----------------------------------------------------------------------------
\* runQuery

\* no helper is being applied
FnIdle == [pc |-> "idle"]

\* the state of the registry after construction, in mode native with callback v
RegInit(native, v) ==
    /\ isNative = native
    /\ verbose = v
    /\ definitions = <<>>
    /\ hooks = [i \in CallIds |-> <<>>]
    /\ tables = {}
    /\ rows = [n \in Names |-> 0]
    /\ rowsModified = 0
    /\ storage = [tables |-> {}, rows |-> [n \in Names |-> 0], writes |-> 0]
    /\ holder = 0
    /\ queue = <<>>
    /\ calls = [c \in CallIds |-> IdleCall]
    /\ issued = 0
    /\ verboseCalls = 0
    /\ hookCalls = 0
    /\ acqLog = <<>>
    /\ executed = <<>>
    /\ dropped = [n \in Names |-> FALSE]
    /\ firstReg = [n \in Names |-> 0]

Init ==
    /\ \E native \in BOOLEAN, v \in {"none", "ok", "throws"} : RegInit(native, v)
    /\ fn = FnIdle

\* a callback error caught and dropped
SwallowsError(threw) == FALSE

\* instance.verbose(asString) and await _callHook(...) are unguarded: an error
\* thrown by either leaves the async function at once
AbortsOn(threw) == threw # ""

\* every call yields before it reaches the pool
AlwaysAwaitsHook(hooked) == TRUE

\* the dispatch of the on-query hook left out
NeverAwaitsHook(hooked) == FALSE

\* if (options.model) await options.model._callHook(Hook.OnQuery, asString)
AwaitsHook(hooked) == hooked

\* the handle taken without waiting for the pool
AcquireNoAwait == "acquired"

\* const db = await instance.pool!.acquire()
Acquire == "waiting"

\* where runQuery goes once the callbacks are done
AfterHooks == IF isNative THEN "native" ELSE Acquire

LogEntry(rec) == [rq |-> rec.rq, hooked |-> rec.hooked]

\* pool.acquire() called before the hook is awaited
ReachBeforeHook(c, rec, pc) ==
    /\ queue' = IF pc \in {"hook", "waiting"} THEN Append(queue, c) ELSE queue
    /\ acqLog' = IF pc \in {"hook", "waiting", "acquired"}
                 THEN Append(acqLog, LogEntry(rec)) ELSE acqLog

\* the pool and the log, for a call that has just got to pc
Reach(c, rec, pc) ==
    /\ queue' = IF pc = "waiting" THEN Append(queue, c) ELSE queue
    /\ acqLog' = IF pc \in {"waiting", "acquired"}
                 THEN Append(acqLog, LogEntry(rec)) ELSE acqLog

\* the on-query subscribers of the model in options
Subscribers(rec) == IF rec.hooked /\ rec.mdl # 0 THEN hooks[rec.mdl] ELSE <<>>

\* _callHook(Hook.OnQuery, asString) calls the subscribers there are at the
\* time of the dispatch; its promise rejects when one of them throws
HookThrows(rec) ==
    \E i \in 1..Len(Subscribers(rec)) :
       Subscribers(rec)[i].ev = "onQuery" /\ Subscribers(rec)[i].beh = "throws"

\* The synchronous part of runQuery(instance, query, options) made by call c,
\* whose record becomes rec: the verbose callback, the dispatch of the
\* on-query hook, and (without a model) the call of pool.acquire().
RunQuery(c, rec) ==
    LET vThrew == verbose = "throws"
        aborted == vThrew /\ AbortsOn("verbose")
        hook == ~aborted /\ AwaitsHook(rec.hooked)
        pc == IF aborted THEN "rejected" ELSE IF hook THEN "hook" ELSE AfterHooks
        r == [rec EXCEPT !.rq = issued + 1, !.pc = pc,
                         !.threw = IF vThrew THEN "verbose"
                                   ELSE IF hook /\ HookThrows(rec) THEN "hook" ELSE "",
                         !.res = IF aborted THEN <<"errVerbose", 0>> ELSE Undefined]
    IN /\ calls' = [calls EXCEPT ![c] = r]
       /\ issued' = issued + 1
       /\ verboseCalls' = IF verbose # "none" THEN verboseCalls + 1 ELSE verboseCalls
       /\ hookCalls' = IF hook /\ rec.hooked THEN hookCalls + 1 ELSE hookCalls
       /\ Reach(c, r, pc)

\* _callHook has settled: runQuery goes on after line 147, or rejects
HookReturn(c) ==
    LET rec == calls[c]
        aborted == rec.threw = "hook" /\ AbortsOn("hook")
        pc == IF aborted THEN "rejected" ELSE AfterHooks
        r == [rec EXCEPT !.pc = pc,
                         !.res = IF aborted THEN <<"errHook", 0>> ELSE Undefined]
    IN /\ rec.pc = "hook"
       /\ calls' = [calls EXCEPT ![c] = r]
       /\ Reach(c, r, pc)
       /\ UNCHANGED <<fn, isNative, verbose, definitions, hooks, dbVars, holder,
                      issued, verboseCalls, hookCalls, executed, ghostVars>>

\* The pool gives its one handle to the oldest waiting call.
Grant(c) ==
    /\ holder = 0
    /\ queue # <<>>
    /\ c = Head(queue)
    /\ holder' = c
    /\ queue' = Tail(queue)
    /\ calls' = [calls EXCEPT ![c].pc = "acquired"]
    /\ UNCHANGED <<fn, isNative, verbose, definitions, hooks, dbVars, issued,
                   verboseCalls, hookCalls, acqLog, executed, ghostVars>>

\* the caller of runQuery that has more to do once runQuery has resolved
Resumes(op) == op \in {"model", "dropModel"}

\* the database as it was before the statement, written out
WriteDatabaseStale(e) ==
    [tables |-> tables, rows |-> rows, writes |-> storage.writes + 1]

\* writeDatabase(instance, db): the database after the statement goes to storage
WriteDatabase(e) ==
    [tables |-> e.tables, rows |-> e.rows, writes |-> storage.writes + 1]

\* runQuery from line 161 to line 178, in one piece: nothing is awaited there.
\* A statement that throws leaves the function before pool.release.
Execute(c) ==
    LET rec == calls[c]
        e == Engine(rec.stmt, rec.name)
    IN /\ rec.pc = "acquired"
       /\ executed' = Append(executed, LogEntry(rec))
       /\ IF e.ok
          THEN /\ tables' = e.tables
               /\ rows' = e.rows
               /\ rowsModified' = e.modified
               /\ storage' = WriteDatabase(e)
               /\ holder' = 0
               /\ calls' = [calls EXCEPT ![c] =
                     [rec EXCEPT !.pc = IF Resumes(rec.op) THEN "resumed" ELSE "done",
                                 !.res = Response(rec.stmt, rec.need, e)]]
          ELSE /\ calls' = [calls EXCEPT ![c] =
                     [rec EXCEPT !.pc = "rejected", !.res = <<"errSql", 0>>]]
               /\ UNCHANGED <<dbVars, holder>>
       /\ UNCHANGED <<fn, isNative, verbose, definitions, hooks, queue, issued,
                      verboseCalls, hookCalls, acqLog, ghostVars>>

\* what the native driver resolves a statement with
DriverResult(stmt, e) ==
    CASE stmt = "hasTable" -> Bool(e.out > 0)
      [] stmt = "select" -> <<"rows", e.out>>
      [] stmt = "insert" -> <<"rows", 1>>
      [] stmt \in {"update", "delete"} -> <<"num", e.modified>>
      [] OTHER -> Undefined

\* the driver's result handed on as it came
RowCountRaw(res) == res

\* if (util.isNumber(res)) return res; return res ? res.length : 0
RowCount(res) ==
    IF res[1] \in {"num", "rows"} THEN <<"num", res[2]>> ELSE <<"num", 0>>

\* Native mode: the driver runs the statement (lines 150-157 for a runQuery
\* call; model() awaits its two schema queries itself, lines 93-97).
NativeExec(c) ==
    LET rec == calls[c]
        e == Engine(rec.stmt, rec.name)
        out == DriverResult(rec.stmt, e)
    IN /\ rec.pc = "native"
       /\ executed' = IF rec.rq # 0 THEN Append(executed, LogEntry(rec)) ELSE executed
       /\ IF e.ok
          THEN /\ tables' = e.tables
               /\ rows' = e.rows
               /\ rowsModified' = e.modified
               /\ storage' = [storage EXCEPT !.tables = e.tables, !.rows = e.rows]
               /\ calls' = [calls EXCEPT ![c] =
                     [rec EXCEPT !.pc = IF Resumes(rec.op) THEN "resumed" ELSE "done",
                                 !.res = IF rec.need \/ rec.rq = 0 THEN out
                                         ELSE RowCount(out)]]
          ELSE /\ calls' = [calls EXCEPT ![c] =
                     [rec EXCEPT !.pc = "rejected", !.res = <<"errSql", 0>>]]
               /\ UNCHANGED dbVars
       /\ UNCHANGED <<fn, isNative, verbose, definitions, hooks, poolVars, issued,
                      verboseCalls, hookCalls, acqLog, ghostVars>>

----------------------------------------------------------------------------
\* The registry

\* a schema query of model(): through runQuery in embedded mode, awaited
\* directly in native mode
SchemaQuery(c, rec) ==
    IF isNative
    THEN /\ calls' = [calls EXCEPT ![c] = [rec EXCEPT !.pc = "native", !.res = Undefined]]
         /\ UNCHANGED <<queue, issued, verboseCalls, hookCalls, acqLog>>
    ELSE RunQuery(c, rec)

\* model() from line 83 to its first await: a new Model is put in the
\* definitions and the has-table check is issued
ModelRegister(c, name) ==
    LET id == NewModelId
        rec == [IdleCall EXCEPT !.op = "model", !.name = name, !.stmt = "hasTable",
                                !.need = TRUE, !.mdl = id]
    IN /\ NextCall(c)
       /\ definitions' = MapSet(name, id)
       /\ firstReg' = [firstReg EXCEPT ![name] = IF @ = 0 THEN id ELSE @]
       /\ dropped' = [dropped EXCEPT ![name] = FALSE]
       /\ SchemaQuery(c, rec)
       /\ UNCHANGED <<fn, isNative, verbose, hooks, dbVars, holder, executed>>

\* model() with the lookup of lines 79-81 left out: every call registers anew
ModelAlwaysNew(c, name) == ModelRegister(c, name)

\* model(name, schema, options) up to its first await
Model(c, name) ==
    IF Has(name)
    THEN /\ NextCall(c)
         /\ calls' = [calls EXCEPT ![c] =
               [IdleCall EXCEPT !.op = "model", !.name = name, !.pc = "done",
                                !.res = <<"model", GetId(name)>>]]
         /\ dropped' = [dropped EXCEPT ![name] = FALSE]
         /\ UNCHANGED <<fn, isNative, verbose, definitions, hooks, dbVars, poolVars,
                        issued, verboseCalls, hookCalls, acqLog, executed, firstReg>>
    ELSE ModelRegister(c, name)

\* model() after one of its schema queries has resolved: createTable when the
\* check said the table is missing, else createTimestampTrigger and return
ModelResume(c) ==
    LET rec == calls[c]
    IN /\ rec.op = "model"
       /\ rec.pc = "resumed"
       /\ IF rec.stmt = "hasTable" /\ rec.res = Bool(FALSE)
          THEN SchemaQuery(c, [rec EXCEPT !.stmt = "createTable", !.need = FALSE])
          ELSE /\ calls' = [calls EXCEPT ![c] =
                     [rec EXCEPT !.pc = "done", !.res = <<"model", rec.mdl>>]]
               /\ UNCHANGED <<queue, issued, verboseCalls, hookCalls, acqLog>>
       /\ UNCHANGED <<fn, isNative, verbose, definitions, hooks, dbVars, holder,
                      executed, ghostVars>>

\* hasModel(name)
HasModel(c, name) ==
    LET rec == [IdleCall EXCEPT !.op = "hasModel", !.name = name, !.stmt = "hasTable",
                                !.need = TRUE, !.post = dropped[name]]
    IN /\ NextCall(c)
       /\ IF ~Has(name)
          THEN /\ calls' = [calls EXCEPT ![c] =
                     [rec EXCEPT !.pc = "done", !.res = Bool(FALSE)]]
               /\ UNCHANGED <<queue, issued, verboseCalls, hookCalls, acqLog>>
          ELSE RunQuery(c, rec)
       /\ UNCHANGED <<fn, isNative, verbose, definitions, hooks, dbVars, holder,
                      executed, ghostVars>>

\* dropModel from line 129 to its await: the drop is issued
DropModelIssue(c, name) ==
    /\ NextCall(c)
    /\ RunQuery(c, [IdleCall EXCEPT !.op = "dropModel", !.name = name,
                                    !.stmt = "dropTable", !.need = TRUE])
    /\ UNCHANGED <<fn, isNative, verbose, definitions, hooks, dbVars, holder,
                   executed, ghostVars>>

\* dropModel without the lookup of lines 125-127: the drop is always issued
DropModelNoLookup(c, name) == DropModelIssue(c, name)

\* dropModel(name) up to its await
DropModel(c, name) ==
    IF ~Has(name)
    THEN /\ NextCall(c)
         /\ calls' = [calls EXCEPT ![c] =
               [IdleCall EXCEPT !.op = "dropModel", !.name = name, !.pc = "done",
                                !.res = Bool(FALSE)]]
         /\ UNCHANGED <<fn, isNative, verbose, definitions, hooks, dbVars, poolVars,
                        issued, verboseCalls, hookCalls, acqLog, executed, ghostVars>>
    ELSE DropModelIssue(c, name)

\* dropModel after its runQuery has resolved: definitions.delete(name); return true
DropResume(c) ==
    LET rec == calls[c]
    IN /\ rec.op = "dropModel"
       /\ rec.pc = "resumed"
       /\ definitions' = MapDelete(rec.name)
       /\ calls' = [calls EXCEPT ![c] = [rec EXCEPT !.pc = "done", !.res = Bool(TRUE)]]
       /\ dropped' = [dropped EXCEPT ![rec.name] = TRUE]
       /\ firstReg' = [firstReg EXCEPT ![rec.name] = 0]
       /\ UNCHANGED <<fn, isNative, verbose, hooks, dbVars, poolVars, issued,
                      verboseCalls, hookCalls, acqLog, executed>>

\* raw(query, needResponse)
Raw(c, stmt, name, need) ==
    /\ NextCall(c)
    /\ RunQuery(c, [IdleCall EXCEPT !.op = "raw", !.name = name, !.stmt = stmt,
                                    !.need = need])
    /\ UNCHANGED <<fn, isNative, verbose, definitions, hooks, dbVars, holder,
                   executed, ghostVars>>

\* the methods that take a location and split it, and those that take a table
SplitOps == {"find", "findOne", "get", "set", "getRaw", "setRaw", "incr", "decr",
             "count", "min", "max"}
TableOps == {"create", "findOrCreate", "update", "updateOrCreate", "remove", "clear"}
CrudOps == SplitOps \cup TableOps

HookEvents == {"onQuery", "beforeCreate", "afterCreate", "beforeUpdate",
               "afterUpdate", "beforeRemove", "afterRemove"}

\* the name a method hands to getModel
TableOf(op, loc) == IF op \in SplitOps THEN SplitTable(loc) ELSE loc

\* the statement a method of Model routes through runQuery first
CrudStmt(op) ==
    CASE op = "create" -> "insert"
      [] op \in {"update", "updateOrCreate", "set", "setRaw", "incr", "decr"} -> "update"
      [] op \in {"remove", "clear"} -> "delete"
      [] OTHER -> "select"

\* a lookup that lets a missing model through
GetModelLenient(name) == FALSE

\* getModel(name): invariant(this._definitions.get(name), ...) throws when
\* the map has no such name
GetModelThrows(name) == ~Has(name)

\* the state a call that threw before it did anything leaves behind
Thrown(c, op, name) ==
    /\ calls' = [calls EXCEPT ![c] =
          [IdleCall EXCEPT !.op = op, !.name = name, !.pc = "thrown",
                           !.res = <<"errUndefinedModel", 0>>]]
    /\ UNCHANGED <<queue, issued, verboseCalls, hookCalls, acqLog>>

\* create, find, ..., max: getModel, then the method of the Model
Crud(c, op, loc) ==
    LET table == TableOf(op, loc)
        stmt == CrudStmt(op)
    IN /\ NextCall(c)
       /\ IF GetModelThrows(table)
          THEN Thrown(c, "crud", table)
          ELSE RunQuery(c, [IdleCall EXCEPT !.op = "crud", !.name = table,
                               !.stmt = stmt, !.need = (stmt = "select"),
                               !.hooked = TRUE, !.mdl = GetId(table)])
       /\ UNCHANGED <<fn, isNative, verbose, definitions, hooks, dbVars, holder,
                      executed, ghostVars>>

\* onQuery(scope, fn), beforeCreate(scope, fn), ...: getModel(scope), then the
\* subscription on that Model; fn behaves as beh when it is called
HookReg(c, ev, loc, beh) ==
    /\ NextCall(c)
    /\ IF GetModelThrows(loc)
       THEN Thrown(c, "hookReg", loc) /\ UNCHANGED hooks
       ELSE /\ GetId(loc) # 0
            /\ hooks' = [hooks EXCEPT ![GetId(loc)] = Append(@, [ev |-> ev, beh |-> beh])]
            /\ calls' = [calls EXCEPT ![c] =
                  [IdleCall EXCEPT !.op = "hookReg", !.name = loc, !.pc = "done",
                                   !.res = <<"unsub", GetId(loc)>>]]
            /\ UNCHANGED <<queue, issued, verboseCalls, hookCalls, acqLog>>
    /\ UNCHANGED <<fn, isNative, verbose, definitions, dbVars, holder, executed, ghostVars>>

\* the models in the reverse of the order they were defined in
ForEachReversed ==
    [i \in 1..Len(definitions) |-> definitions[Len(definitions) + 1 - i].id]

\* this._definitions.forEach(model => ...): the models in insertion order
ForEachModel == [i \in 1..Len(definitions) |-> definitions[i].id]

\* onQuery(fn), beforeCreate(fn), ...: without a scope, the subscription is
\* made on every Model of the definitions and the unsubscribe functions are
\* returned in a list
HookRegAll(c, ev, beh) ==
    LET ids == ForEachModel
    IN /\ NextCall(c)
       /\ hooks' = [m \in CallIds |->
                      IF \E i \in 1..Len(ids) : ids[i] = m
                      THEN Append(hooks[m], [ev |-> ev, beh |-> beh])
                      ELSE hooks[m]]
       /\ calls' = [calls EXCEPT ![c] =
             [IdleCall EXCEPT !.op = "hookRegAll", !.pc = "done",
                              !.res = <<"unsubs", Len(ids)>>, !.list = ids]]
       /\ UNCHANGED <<fn, isNative, verbose, definitions, dbVars, poolVars, issued,
                      verboseCalls, hookCalls, acqLog, executed, ghostVars>>

----------------------------------------------------------------------------

RawStmts == {"insert", "delete", "select"}
\* the needResponse a caller of raw passes: true for a read
RawNeed(stmt) == stmt = "select"
Behaviours == {"ok", "throws"}

Next ==
    \/ \E c \in CallIds, n \in Names : Model(c, n)
    \/ \E c \in CallIds, n \in Names : HasModel(c, n)
    \/ \E c \in CallIds, n \in Names : DropModel(c, n)
    \/ \E c \in CallIds, s \in RawStmts, n \in Names : Raw(c, s, n, RawNeed(s))
    \/ \E c \in CallIds, op \in CrudOps, loc \in Locations : Crud(c, op, loc)
    \/ \E c \in CallIds, ev \in HookEvents, loc \in Locations, b \in Behaviours :
          HookReg(c, ev, loc, b)
    \/ \E c \in CallIds, ev \in HookEvents, b \in Behaviours : HookRegAll(c, ev, b)
    \/ \E c \in CallIds : HookReturn(c)
    \/ \E c \in CallIds : Grant(c)
    \/ \E c \in CallIds : Execute(c)
    \/ \E c \in CallIds : NativeExec(c)
    \/ \E c \in CallIds : ModelResume(c)
    \/ \E c \in CallIds : DropResume(c)

Spec == Init /\ [][Next]_vars

\* The event loop runs every continuation that is ready, and the pool hands
\* out a free handle while calls wait; the environment need not call again.
Fairness ==
    /\ \A c \in CallIds : WF_vars(HookReturn(c))
    /\ \A c \in CallIds : WF_vars(Grant(c))
    /\ \A c \in CallIds : WF_vars(Execute(c))
    /\ \A c \in CallIds : WF_vars(NativeExec(c))
    /\ \A c \in CallIds : WF_vars(ModelResume(c))
    /\ \A c \in CallIds : WF_vars(DropResume(c))

FairSpec == Init /\ [][Next]_vars /\ Fairness

----------------------------------------------------------------------------
\* The criteria helpers of part_000.  A JavaScript value is a pair of a tag
\* and a payload: a string, a number, a boolean (Bool), undefined (Undefined),
\* null, an array (its items) or an object (its entries, a sequence of
\* <<key, value>> pairs in key order).

Str(s) == <<"str", s>>
Num(n) == <<"num", n>>
Null == <<"null", 0>>
Arr(items) == <<"arr", items>>
Obj(entries) == <<"obj", entries>>

\* the longest list of clauses the criteria are drawn with
MaxListLen == 2

\* the longest array that is a where tuple
TupleMax == 3

SeqsUpTo(S, n) == UNION {[1..k -> S] : k \in 0..n}

Scalars == {Str("a"), Bool(TRUE)}

\* the arrays of scalars: the tuples, and arrays that are too short, too long
\* or that start with a value that is no string
ScalarArrays ==
    {Arr(s) : s \in SeqsUpTo(Scalars, TupleMax)}
       \cup {Arr(<<Str("a"), Str("a"), Bool(TRUE), Bool(TRUE)>>)}

Objects ==
    {Obj(<<>>), Obj(<< <<"a", Str("a")>> >>), Obj(<< <<"a", Bool(TRUE)>> >>),
     Obj(<< <<"a", Bool(TRUE)>>, <<"b", Num(1)>> >>)}

Elements == Scalars \cup {Null} \cup ScalarArrays \cup Objects

Lists == {Arr(s) : s \in SeqsUpTo(Elements, MaxListLen)}

\* a list in a list
NestedLists == {Arr(<<Arr(<<t>>)>>) : t \in ScalarArrays \cup Objects}

Criteria == {Undefined, Num(1)} \cup Elements \cup Lists \cup NestedLists

\* the clauses the builder already has when buildWhere is called
Partials == {<<>>, <<Obj(<< <<"b", Num(1)>> >>)>>}

\* typeof value
TypeOf(v) ==
    CASE v[1] = "str" -> "string"
      [] v[1] = "num" -> "number"
      [] v[1] = "bool" -> "boolean"
      [] v[1] = "undef" -> "undefined"
      [] OTHER -> "object"

\* util.isObject(value)
isObject(v) == v[1] = "obj"

isWhereTuple(where) ==
    /\ where[1] = "arr"
    /\ Len(where[2]) = 2 \/ Len(where[2]) = TupleMax
    /\ where[2][1][1] = "str"

isWhereMultiple(where) ==
    /\ where[1] = "arr"
    /\ \A i \in 1..Len(where[2]) : isWhereTuple(where[2][i]) \/ isObject(where[2][i])

isValidWhere(where) == isWhereTuple(where) \/ isObject(where) \/ isWhereMultiple(where)

\* a tuple of three that loses its operator
Tuple3DropOp(where) == Arr(<<where[2][1], where[2][3]>>)

\* return where as types.Criteria3
Tuple3(where) == where

\* return { [where[0]]: where[1] }
Tuple2(where) == Obj(<< <<where[2][1][2], where[2][2]>> >>)

RECURSIVE normalizeCriteria(_)

\* a list handed back as it came
MapNone(items) == items

\* where.map(normalizeCriteria)
MapNormalize(items) == [i \in 1..Len(items) |-> normalizeCriteria(items[i])]

normalizeCriteria(where) ==
    IF isWhereTuple(where)
    THEN IF Len(where[2]) = 2 THEN Tuple2(where) ELSE Tuple3(where)
    ELSE IF isWhereMultiple(where) THEN Arr(MapNormalize(where[2]))
    ELSE IF isObject(where) THEN where
    ELSE where

\* castValue(value): a boolean becomes 0 or 1
castValue(v) == IF v[1] = "bool" THEN Num(v[2]) ELSE v

\* util.mapObj(where, castValue)
mapObj(where) ==
    Obj([i \in 1..Len(where[2]) |-> <<where[2][i][1], castValue(where[2][i][2])>>])

\* What a call of buildWhere leaves: the clauses of the builder, the type the
\* error names ("" when none was raised), the caller's criteria after the
\* call, and how deep the calls of buildWhere it made were nested.
Built(builder, err, where, depth) ==
    [builder |-> builder, err |-> err, where |-> where, depth |-> depth]

\* a criteria of no known shape let through
InvalidIgnored(partial, where) == Built(partial, "", where, 0)

\* util.invariant(false, `invalid where clause type: '${typeof where}'`)
Invalid(partial, where) == Built(partial, TypeOf(where), where, 0)

Max(a, b) == IF a >= b THEN a ELSE b

RECURSIVE buildWhere(_, _, _)
RECURSIVE reduce(_, _)

\* where.reduce((accumulator, clause) => buildWhere(accumulator, clause, true), partial),
\* from clause k on; acc is what the calls made so far left
reduce(acc, k) ==
    IF k > Len(acc.where[2]) \/ acc.err # "" THEN acc
    ELSE LET r == buildWhere(acc.builder, acc.where[2][k], TRUE)
         IN reduce(Built(r.builder, r.err,
                         Arr([acc.where[2] EXCEPT ![k] = r.where]),
                         Max(acc.depth, r.depth + 1)),
                   k + 1)

\* buildWhere(partial, where, inner): partial.where(...) appends a clause to
\* the builder; the last item of a tuple is cast in place
buildWhere(partial, where, inner) ==
    IF where[1] = "undef" THEN Built(partial, "", where, 0)
    ELSE IF isWhereTuple(where)
    THEN LET i == Len(where[2])
             cast == Arr([where[2] EXCEPT ![i] = castValue(where[2][i])])
         IN Built(Append(partial, cast), "", cast, 0)
    ELSE IF ~inner /\ isWhereMultiple(where) THEN reduce(Built(partial, "", where, 0), 1)
    ELSE IF isObject(where) THEN Built(Append(partial, mapObj(where)), "", where, 0)
    ELSE Invalid(partial, where)

----------------------------------------------------------------------------
\* The response of runQuery in embedded mode.  The text of a query is the
\* sequence of its words (the pieces between single spaces).

\* the largest value of the modified-row counter
MaxModified == 2

HAS_TABLE_SUBSTRING == <<"from", "sqlite_master", "where", "type", "=", "'table'">>

Texts ==
    {<<"insert", "into", "t">>, <<"INSERT", "into", "t">>, <<"update", "t">>,
     <<"delete", "from", "t">>, <<"select", "*", "from", "t">>,
     <<"create", "table", "t">>, <<"inserted">>,
     <<"select", "name">> \o HAS_TABLE_SUBSTRING \o <<"and", "name", "=", "t">>,
     <<"SELECT", "name", "FROM", "sqlite_master", "WHERE", "type", "=", "'table'">>,
     <<"select", "*", "from", "sqlite_master">>}

\* str.toLowerCase(), word by word
toLowerCase(str) ==
    [i \in 1..Len(str) |->
        CASE str[i] = "INSERT" -> "insert"
          [] str[i] = "SELECT" -> "select"
          [] str[i] = "FROM" -> "from"
          [] str[i] = "WHERE" -> "where"
          [] OTHER -> str[i]]

\* str.includes(part)
includes(str, part) ==
    \E i \in 1..Len(str) :
       i + Len(part) - 1 <= Len(str) /\ SubSeq(str, i, i + Len(part) - 1) = part

\* the first word as it is written
getQueryActionCased(str) == Head(str)

\* getQueryAction(str): str.split(' ', 1)[0].toLowerCase()
getQueryAction(str) == toLowerCase(<<Head(str)>>)[1]

\* the result sets db.exec can give: columns and rows of values
ResultSets ==
    {[columns |-> <<"name">>, values |-> vs] :
        vs \in {<<>>, << <<"x">> >>, << <<"x">>, <<"y">> >>}}
       \cup {[columns |-> <<"id", "name">>, values |-> << <<"1", "x">> >>]}

Contents == {<<>>} \cup {<<rs>> : rs \in ResultSets}
               \cup {<<rs, [columns |-> <<"name">>, values |-> << <<"z">> >>]>> :
                       rs \in ResultSets}

\* line[columns[j]] = values[i][j], for every j in turn
Line(columns, row) ==
    [col \in {columns[j] : j \in 1..Len(columns)} |->
        row[CHOOSE j \in 1..Len(columns) :
               columns[j] = col /\ \A k \in 1..Len(columns) : columns[k] = col => k <= j]]

\* parseResponse(contents): one record for each row of the first result set
parseResponse(contents) ==
    IF Len(contents) = 0 THEN <<>>
    ELSE LET first == contents[1]
         IN [i \in 1..Len(first.values) |-> Line(first.columns, first.values[i])]

\* runQuery, lines 163 to 174: the response it builds from what the engine
\* gave: contents from db.exec, modified from db.getRowsModified()
EmbeddedResponse(text, need, contents, modified) ==
    IF need
    THEN LET response == parseResponse(contents)
         IN IF includes(toLowerCase(text), HAS_TABLE_SUBSTRING)
            THEN Bool(Len(response) > 0)
            ELSE <<"records", response>>
    ELSE IF getQueryAction(text) \in {"insert", "update", "delete"}
         THEN <<"num", modified>>
         ELSE Undefined

----------------------------------------------------------------------------
\* The helpers, each applied to one input

FnInit ==
    /\ RegInit(FALSE, "none")
    /\ \/ \E w \in Criteria : fn = [pc |-> "normalize", where |-> w]
       \/ \E w \in Criteria, p \in Partials :
             fn = [pc |-> "buildWhere", where |-> w, partial |-> p]
       \/ \E t \in Texts, need \in BOOLEAN, ct \in Contents, m \in 0..MaxModified :
             fn = [pc |-> "runQuery", text |-> t, need |-> need, contents |-> ct,
                   modified |-> m]

NormalizeCriteria ==
    /\ fn.pc = "normalize"
    /\ fn' = [pc |-> "normalized", where |-> fn.where, out |-> normalizeCriteria(fn.where)]
    /\ UNCHANGED regVars

\* the value normalizeCriteria returned, normalized again
NormalizeAgain ==
    /\ fn.pc = "normalized"
    /\ fn' = [pc |-> "renormalized", where |-> fn.where, out |-> fn.out,
              again |-> normalizeCriteria(fn.out)]
    /\ UNCHANGED regVars

BuildWhere ==
    /\ fn.pc = "buildWhere"
    /\ fn' = [pc |-> "built", where |-> fn.where, partial |-> fn.partial,
              r |-> buildWhere(fn.partial, fn.where, FALSE)]
    /\ UNCHANGED regVars

Respond ==
    /\ fn.pc = "runQuery"
    /\ fn' = [fn EXCEPT !.pc = "responded"] @@
             [response |-> EmbeddedResponse(fn.text, fn.need, fn.contents, fn.modified)]
    /\ UNCHANGED regVars

FnNext == NormalizeCriteria \/ NormalizeAgain \/ BuildWhere \/ Respond

FnSpec == FnInit /\ [][FnNext]_vars

----------------------------------------------------------------------------
\* Properties

Settled(c) == calls[c].pc \in {"done", "rejected", "thrown"}
InRunQuery(c) == calls[c].pc \in {"hook", "waiting", "acquired", "native"}
Invoked(c) == calls[c].pc = "idle" /\ calls'[c].pc # "idle"
ExecutedRqs == {executed[i].rq : i \in 1..Len(executed)}
AcquireRqs == {acqLog[i].rq : i \in 1..Len(acqLog)}

\* C1: once dropModel(name) on a defined name has resolved true, and until the
\* next model(name) call, the table name does not exist, name is not in the
\* definitions, and every hasModel(name) issued in that period returned false.
C1_DropModelRemoves ==
    /\ \A n \in Names : dropped[n] => n \notin tables /\ ~Has(n)
    /\ \A c \in CallIds :
          calls[c].op = "hasModel" /\ calls[c].post
             => calls[c].pc = "done" /\ calls[c].res = Bool(FALSE)

\* C2: hasModel and dropModel on a name that is not in the definitions resolve
\* false at once, call neither runQuery nor the pool nor a callback, and leave
\* the definitions and the database as they were.
C2_UndefinedNameIsFalse ==
    [][\A c \in CallIds :
          Invoked(c) /\ calls'[c].op \in {"hasModel", "dropModel"}
                     /\ ~Has(calls'[c].name)
             => /\ calls'[c].pc = "done"
                /\ calls'[c].res = Bool(FALSE)
                /\ UNCHANGED <<definitions, hooks, dbVars, poolVars, issued,
                               verboseCalls, hookCalls, acqLog, executed>>]_vars

C2_Witness ==
    \E c, d \in CallIds :
       /\ calls[c].op = "hasModel" /\ calls[c].pc = "done" /\ calls[c].rq = 0
       /\ calls[c].res = Bool(FALSE)
       /\ calls[d].op = "dropModel" /\ calls[d].pc = "done" /\ calls[d].rq = 0
       /\ calls[d].res = Bool(FALSE)
       /\ definitions # <<>>

\* C3: a model(name) call made after a first one registered name, with no drop
\* of name in between, returns at once the instance the first call registered,
\* issues no schema query and leaves the definitions unchanged; the first call
\* itself returns the instance it registered.
C3_ModelIdempotent ==
    [][\A c \in CallIds :
          /\ Invoked(c) /\ calls'[c].op = "model" /\ firstReg[calls'[c].name] # 0
                => /\ calls'[c].pc = "done"
                   /\ calls'[c].res = <<"model", firstReg[calls'[c].name]>>
                   /\ UNCHANGED <<definitions, hooks, dbVars, poolVars, issued,
                                  verboseCalls, hookCalls, acqLog, executed>>
          /\ Invoked(c) /\ calls'[c].op = "model" /\ firstReg[calls'[c].name] = 0
                => /\ calls'[c].mdl # 0
                   /\ firstReg'[calls'[c].name] = calls'[c].mdl
          /\ calls[c].op = "model" /\ calls[c].pc = "resumed" /\ calls'[c].pc = "done"
                => calls'[c].res = <<"model", calls[c].mdl>>]_vars

C3_Witness ==
    \E c, d \in CallIds :
       /\ c < d
       /\ calls[c].op = "model" /\ calls[d].op = "model"
       /\ calls[c].name = calls[d].name
       /\ calls[c].pc = "done" /\ calls[d].pc = "done"
       /\ calls[c].mdl # 0 /\ calls[d].mdl = 0
       /\ calls[c].res = calls[d].res

\* C4: in embedded mode at most one call is between the return of
\* pool.acquire() and pool.release().
InWindow == {c \in CallIds : calls[c].pc = "acquired"}
               \cup (IF holder # 0 THEN {holder} ELSE {})

C4_Mutex == ~isNative => Cardinality(InWindow) <= 1

C4_Witness ==
    \E c, d \in CallIds :
       calls[c].pc = "acquired" /\ calls[d].pc = "waiting" /\ holder = c

\* C5: a runQuery call that acquired the handle and has resolved or rejected
\* no longer holds it.
C5_ReleasedOnEveryExit ==
    \A c \in CallIds : calls[c].pc \in {"done", "rejected", "resumed"} => holder # c

\* C6: in embedded mode an insert routed through runQuery (needResponse
\* false) runs once, adds one row to its table and to no other, and resolves
\* with the rows-modified count of its own statement, 1; a call that has
\* completed never runs again.
IsInsert(c) == calls[c].stmt = "insert" /\ ~calls[c].need

Occurrences(log, rq) == Cardinality({i \in 1..Len(log) : log[i].rq = rq})

C6_InsertsSerialized ==
    [][~isNative =>
         \A c \in CallIds :
            /\ IsInsert(c) /\ calls[c].pc = "acquired" /\ calls'[c].pc = "done"
                  => /\ calls'[c].res = <<"num", 1>>
                     /\ rows' = [rows EXCEPT ![calls[c].name] = @ + 1]
                     /\ Occurrences(executed, calls[c].rq) = 0
                     /\ Occurrences(executed', calls[c].rq) = 1
            /\ IsInsert(c) /\ calls'[c].pc = "done"
                  => calls[c].pc \in {"acquired", "done"}
            /\ IsInsert(c) /\ calls[c].pc = "done"
                  => calls'[c] = calls[c] /\ Occurrences(executed', calls[c].rq) = 1]_vars

\* two inserts into one table have both completed
C6_Witness ==
    \E c, d \in CallIds :
       /\ c # d /\ ~isNative
       /\ IsInsert(c) /\ IsInsert(d) /\ calls[c].name = calls[d].name
       /\ calls[c].pc = "done" /\ calls[c].res = <<"num", 1>>
       /\ calls[d].pc = "done" /\ calls[d].res = <<"num", 1>>
       /\ rows[calls[c].name] = 2

\* C7 as stated: statements run in the order their runQuery calls were made.
C7_ArrivalOrder ==
    ~isNative =>
       \A i, j \in 1..Len(executed) : i < j => executed[i].rq < executed[j].rq

\* C7: in embedded mode statements run in the order in which their runQuery
\* calls reached pool.acquire(); calls made without a model reach it in the
\* order they were made, so among them arrival order is execution order.
C7_AcquireOrder ==
    ~isNative =>
       /\ Len(executed) <= Len(acqLog)
       /\ executed = SubSeq(acqLog, 1, Len(executed))
       /\ \A i, j \in 1..Len(executed) :
             i < j /\ ~executed[i].hooked /\ ~executed[j].hooked
                => executed[i].rq < executed[j].rq

\* a call with a model was overtaken by a later call without one
C7_Witness ==
    /\ ~isNative
    /\ \E i, j \in 1..Len(executed) :
          i < j /\ executed[i].rq > executed[j].rq /\ executed[j].hooked
    /\ \E i, j \in 1..Len(executed) :
          i < j /\ ~executed[i].hooked /\ ~executed[j].hooked

\* C8: every embedded-mode runQuery call eventually resolves or rejects.
C8_EveryCallSettles ==
    \A c \in CallIds :
       (~isNative /\ InRunQuery(c)) ~> (Settled(c) \/ calls[c].pc = "resumed")

\* C9: a CRUD, aggregate or scoped hook-registration call whose table is not
\* in the definitions throws from getModel at once: no runQuery, no pool, no
\* callback, and the definitions, the hooks and the database stay as they were.
C9_UndefinedModelThrows ==
    [][\A c \in CallIds :
          Invoked(c) /\ calls'[c].op \in {"crud", "hookReg"} /\ ~Has(calls'[c].name)
             => /\ calls'[c].pc = "thrown"
                /\ calls'[c].rq = 0
                /\ UNCHANGED <<definitions, hooks, dbVars, poolVars, issued,
                               verboseCalls, hookCalls, acqLog, executed>>]_vars

\* a call on an undefined model threw, and a later call on a defined one ran
C9_Witness ==
    \E c, d \in CallIds :
       /\ c < d
       /\ calls[c].op = "crud" /\ calls[c].pc = "thrown"
       /\ calls[d].op = "crud" /\ calls[d].pc = "done"

\* C10 as stated: a callback that throws does not make runQuery reject.
C10_CallbackFailureIgnored ==
    \A c \in CallIds :
       calls[c].threw # ""
          => ~(calls[c].pc = "rejected" /\ calls[c].res[1] \in {"errVerbose", "errHook"})

\* C10: an error thrown by the verbose callback or by the on-query hook aborts
\* the query: runQuery rejects with it, never reaches the pool and never runs
\* the statement.
C10_CallbackFailureAborts ==
    \A c \in CallIds :
       calls[c].threw # ""
          => /\ calls[c].pc \in {"hook", "rejected"}
             /\ calls[c].threw = "verbose" => calls[c].pc = "rejected"
             /\ calls[c].pc = "rejected"
                   => calls[c].res = IF calls[c].threw = "verbose"
                                     THEN <<"errVerbose", 0>> ELSE <<"errHook", 0>>
             /\ calls[c].rq \notin ExecutedRqs
             /\ calls[c].rq \notin AcquireRqs

C10_Witness ==
    \E c \in CallIds :
       calls[c].threw = "hook" /\ calls[c].pc = "rejected" /\ Len(executed) > 0

\* the calls that made a runQuery call with a model in its options
HookedCalls == {c \in CallIds : calls[c].rq # 0 /\ calls[c].hooked}

\* C11 as stated: every runQuery call with a model in its options dispatched
\* the on-query hook exactly once.
C11_HookOncePerModelQuery == hookCalls = Cardinality(HookedCalls)

\* what one step does to the callbacks: a step that makes a runQuery call
\* invokes the verbose callback once when there is one and, unless that
\* callback threw, dispatches the hook once when the call has a model; its
\* statement has not run yet; no other step invokes a callback
CallbackStep ==
    /\ issued' \in {issued, issued + 1}
    /\ issued' = issued => verboseCalls' = verboseCalls /\ hookCalls' = hookCalls
    /\ issued' = issued + 1 =>
          \E c \in CallIds :
             /\ calls'[c].rq = issued' /\ calls[c].rq # issued'
             /\ verboseCalls' = verboseCalls + (IF verbose = "none" THEN 0 ELSE 1)
             /\ hookCalls' = hookCalls +
                   (IF calls'[c].hooked /\ verbose # "throws" THEN 1 ELSE 0)
             /\ calls'[c].rq \notin {executed'[i].rq : i \in 1..Len(executed')}
    /\ executed' # executed =>
          /\ issued' = issued
          /\ executed'[Len(executed')].rq <= issued

\* C11: in both modes every runQuery call invokes the verbose callback, when
\* one is configured, exactly once; a call with a model in its options
\* dispatches the on-query hook exactly once unless the verbose callback threw
\* (then runQuery rejects before the dispatch); a call without a model
\* dispatches no hook; and both happen in the step that makes the call, before
\* the statement of the call runs.
C11_CallbacksOncePerQuery ==
    /\ [](/\ verboseCalls = (IF verbose = "none" THEN 0 ELSE issued)
          /\ hookCalls = Cardinality({c \in HookedCalls : calls[c].threw # "verbose"})
          /\ hookCalls <= issued)
    /\ [][CallbackStep]_vars

\* with a verbose callback, a call with a model and a call without one have
\* both run their statements
C11_Witness ==
    /\ verbose = "ok"
    /\ hookCalls = 1
    /\ verboseCalls >= 2
    /\ \E c, d \in CallIds :
          /\ calls[c].hooked /\ calls[c].rq \in ExecutedRqs /\ calls[c].pc = "done"
          /\ ~calls[d].hooked /\ calls[d].rq \in ExecutedRqs

\* C12: for every criteria C of a valid shape (a tuple of two or of three, an
\* object, a list of tuples and objects), normalizing the normalized C gives
\* the normalized C again.
C12_NormalizeIdempotent ==
    fn.pc = "renormalized" /\ isValidWhere(fn.where) => fn.again = fn.out

\* a list with a tuple of two in it was changed by the first pass and left
\* alone by the second
C12_Witness ==
    /\ fn.pc = "renormalized"
    /\ isWhereMultiple(fn.where)
    /\ \E i \in 1..Len(fn.where[2]) :
          isWhereTuple(fn.where[2][i]) /\ Len(fn.where[2][i][2]) = 2
    /\ fn.out # fn.where
    /\ fn.again = fn.out

\* the instances that are in the definitions
DefinedIds == {definitions[i].id : i \in 1..Len(definitions)}

\* C13: a hook registration without a scope subscribes the callback on
\* exactly the models that are in the definitions when it is called, once on
\* each, and returns one unsubscribe function per such model, the i-th for
\* the i-th model in insertion order (instances are numbered in the order
\* they were registered); a model registered later starts without subscribers.
C13_RegistersOnDefinedModels ==
    [][\A c \in CallIds :
          /\ Invoked(c) /\ calls'[c].op = "hookRegAll"
                => LET list == calls'[c].list
                   IN /\ calls'[c].pc = "done"
                      /\ Len(list) = Cardinality(DefNames)
                      /\ {list[i] : i \in 1..Len(list)} = DefinedIds
                      /\ \A i, j \in 1..Len(list) : i < j => list[i] < list[j]
                      /\ \E ev \in HookEvents, b \in Behaviours :
                            \A m \in CallIds :
                               hooks'[m] = IF m \in DefinedIds
                                           THEN Append(hooks[m], [ev |-> ev, beh |-> b])
                                           ELSE hooks[m]
                      /\ UNCHANGED <<definitions, dbVars, poolVars, issued>>
          /\ Invoked(c) /\ calls'[c].op = "model" /\ calls'[c].mdl # 0
                => hooks'[calls'[c].mdl] = <<>>]_vars

\* two models were defined and the registration returned two functions
C13_Witness ==
    \E c \in CallIds :
       /\ calls[c].op = "hookRegAll" /\ calls[c].pc = "done"
       /\ Len(calls[c].list) = 2
       /\ Len(definitions) = 2
       /\ \A m \in DefinedIds : Len(hooks[m]) = 1

\* the calls whose on-query hook is being dispatched
InHook == {c \in CallIds : calls[c].pc = "hook"}

\* C14 as stated: in embedded mode the on-query hook of a call runs while
\* that call holds the handle.
C14_HookInsideWindow == ~isNative => \A c \in InHook : holder = c

\* C14: in embedded mode the on-query hook of a runQuery call is dispatched,
\* and awaited, before the call asks the pool for the handle: while the hook
\* runs the call neither holds the handle nor waits for it, and another call
\* may hold it.
C14_HookBeforeAcquire ==
    ~isNative =>
       \A c \in InHook :
          /\ holder # c
          /\ \A i \in 1..Len(queue) : queue[i] # c
          /\ calls[c].rq \notin AcquireRqs
          /\ calls[c].rq \notin ExecutedRqs

\* a hook is being dispatched while another call holds the handle
C14_Witness ==
    /\ ~isNative
    /\ \E c \in InHook, d \in CallIds : d # c /\ holder = d /\ calls[d].pc = "acquired"

\* a statement that changes the database
IsWrite(stmt) == stmt \in {"createTable", "dropTable", "insert", "update", "delete"}

\* C15: in embedded mode a runQuery call whose write statement ran persists
\* the database exactly once, in the piece of code that ran the statement and
\* releases the handle: storage holds the database the statement left, the
\* caller held the handle until then, and no other step writes to storage, so
\* no caller ever finds storage behind the database.
C15_PersistOncePerWrite ==
    /\ [](~isNative => storage.tables = tables /\ storage.rows = rows)
    /\ [][~isNative =>
            /\ \A c \in CallIds :
                  (/\ calls[c].pc = "acquired" /\ IsWrite(calls[c].stmt)
                   /\ calls'[c].pc \in {"done", "resumed"})
                     => /\ holder = c /\ holder' = 0
                        /\ storage'.writes = storage.writes + 1
                        /\ storage'.tables = tables' /\ storage'.rows = rows'
                        /\ calls[c].rq \notin ExecutedRqs
            /\ storage' # storage
                  => /\ storage'.writes = storage.writes + 1
                     /\ \E c \in CallIds :
                           calls[c].pc = "acquired" /\ calls'[c].pc \in {"done", "resumed"}]_vars

\* an insert and a delete have both been persisted, and the table is empty
C15_Witness ==
    /\ ~isNative
    /\ storage.writes >= 3
    /\ \E c, d \in CallIds :
          /\ calls[c].stmt = "insert" /\ calls[c].pc = "done"
          /\ calls[d].stmt = "delete" /\ calls[d].pc = "done"
          /\ calls[d].res = <<"num", 1>>
          /\ storage.rows[calls[c].name] = 0

\* the rows of the first result set, none when the engine gave no result set
FirstRows(contents) == IF contents = <<>> THEN <<>> ELSE contents[1].values

\* the text has the marker of a has-table query, in any letter case
IsHasTableQuery(text) ==
    \E i \in 1..Len(text) :
       /\ i + Len(HAS_TABLE_SUBSTRING) - 1 <= Len(text)
       /\ \A k \in 1..Len(HAS_TABLE_SUBSTRING) :
             toLowerCase(<<text[i + k - 1]>>) = <<HAS_TABLE_SUBSTRING[k]>>

\* C16: in embedded mode, with needResponse true the result is the sequence
\* of column -> value records of the first result set (empty when the engine
\* gave none), except that a query whose text has the has-table marker gives
\* the boolean that is true exactly when at least one row came back; with
\* needResponse false the result is the modified-row counter when the first
\* word of the statement is insert, update or delete (in any letter case),
\* and undefined otherwise.
C16_EmbeddedResultShape ==
    fn.pc = "responded" =>
       LET rws == FirstRows(fn.contents)
       IN /\ fn.need /\ IsHasTableQuery(fn.text)
                => fn.response = Bool(Len(rws) >= 1)
          /\ fn.need /\ ~IsHasTableQuery(fn.text)
                => /\ fn.response[1] = "records"
                   /\ Len(fn.response[2]) = Len(rws)
                   /\ \A i \in 1..Len(rws) :
                         \A j \in 1..Len(fn.contents[1].columns) :
                            fn.response[2][i][fn.contents[1].columns[j]] = rws[i][j]
          /\ ~fn.need /\ toLowerCase(<<fn.text[1]>>)[1] \in {"insert", "update", "delete"}
                => fn.response = <<"num", fn.modified>>
          /\ ~fn.need /\ toLowerCase(<<fn.text[1]>>)[1] \notin {"insert", "update", "delete"}
                => fn.response = Undefined

\* an INSERT written in capitals gave the counter
C16_Witness ==
    /\ fn.pc = "responded"
    /\ ~fn.need
    /\ fn.text[1] = "INSERT"
    /\ fn.modified = 2
    /\ fn.response = <<"num", 2>>

\* call c comes out of runQuery with a result in this step
Resolves(c) ==
    /\ calls[c].rq # 0
    /\ calls[c].pc \in {"acquired", "native"}
    /\ calls'[c].pc \in {"done", "resumed"}

\* what the native backend and the embedded backend resolve a statement with
\* when needResponse is false, on the database as it is
NativeCount(c) == RowCount(DriverResult(calls[c].stmt, Engine(calls[c].stmt, calls[c].name)))
EmbeddedCount(c) == WriteResponse(calls[c].stmt, Engine(calls[c].stmt, calls[c].name))

NormalClause(item) ==
    IF item[1] = "arr" /\ Len(item[2]) = 2
    THEN Obj(<< <<item[2][1][2], item[2][2]>> >>)
    ELSE item

\* C18: normalizeCriteria tests for a tuple before it tests for a list: an
\* array of length 2 whose first item is a string becomes the object
\* {column: value}; an array of length 3 whose first item is a string is
\* returned as it is; any other array whose items are all tuples or objects
\* becomes the array, of the same length and order, of the normal forms of
\* its items; an object is returned as it is.
C18_NormalizeByShape ==
    fn.pc = "normalized" =>
       LET w == fn.where
           items == w[2]
           stringFirst == w[1] = "arr" /\ Len(items) >= 1 /\ items[1][1] = "str"
           tuple2 == stringFirst /\ Len(items) = 2
           tuple3 == stringFirst /\ Len(items) = 3
       IN /\ tuple2 => /\ fn.out[1] = "obj"
                       /\ Len(fn.out[2]) = 1
                       /\ fn.out[2][1] = <<items[1][2], items[2]>>
          /\ tuple3 => fn.out = w
          /\ w[1] = "arr" /\ ~tuple2 /\ ~tuple3 /\ isWhereMultiple(w)
                => /\ fn.out[1] = "arr"
                   /\ Len(fn.out[2]) = Len(items)
                   /\ \A i \in 1..Len(items) : fn.out[2][i] = NormalClause(items[i])
          /\ w[1] = "obj" => fn.out = w

\* a list of a tuple of two and an object became a list of two objects
C18_Witness ==
    /\ fn.pc = "normalized"
    /\ fn.where[1] = "arr"
    /\ Len(fn.where[2]) = 2
    /\ isWhereTuple(fn.where[2][1]) /\ Len(fn.where[2][1][2]) = 2
    /\ fn.where[2][2][1] = "obj"
    /\ fn.out[2][1] = Obj(<< <<"a", Bool(TRUE)>> >>)
    /\ fn.out[2][2] = fn.where[2][2]

\* the name typeof gives the type of a value
TypeName(v) ==
    IF v[1] = "num" THEN "number"
    ELSE IF v[1] = "str" THEN "string"
    ELSE IF v[1] = "bool" THEN "boolean"
    ELSE "object"

\* C19: buildWhere returns the builder unchanged when the criteria is
\* undefined; for every defined criteria that is neither a tuple, nor an
\* object, nor (at top level) a list of tuples and objects it raises the
\* invalid-criteria error that names the type it received, and adds no
\* clause; a list adds one clause per item, and the calls buildWhere makes
\* of itself are never nested deeper than one.
C19_BuildWhereRejectsInvalid ==
    fn.pc = "built" =>
       LET w == fn.where
           r == fn.r
           known == isWhereTuple(w) \/ isObject(w) \/ isWhereMultiple(w)
       IN /\ w[1] = "undef" => r.builder = fn.partial /\ r.err = ""
          /\ w[1] # "undef" /\ ~known
                => r.err = TypeName(w) /\ r.builder = fn.partial
          /\ known => r.err = ""
          /\ isWhereTuple(w) \/ isObject(w) => Len(r.builder) = Len(fn.partial) + 1
          /\ isWhereMultiple(w) /\ ~isWhereTuple(w)
                => Len(r.builder) = Len(fn.partial) + Len(w[2])
          /\ r.depth <= 1
          /\ SubSeq(r.builder, 1, Len(fn.partial)) = fn.partial

\* a list in a list was rejected as an 'object' and the builder kept its one clause
C19_Witness ==
    /\ fn.pc = "built"
    /\ fn.where \in NestedLists
    /\ fn.r.err = "object"
    /\ fn.partial # <<>>
    /\ fn.r.builder = fn.partial

\* C20: when a model(name) call has resolved, and no dropModel(name) was
\* called, the table name exists: also for a second model(name) call that is
\* made while the first one is still waiting for its has-table check or its
\* create-table statement.
C20_ResolvedModelHasTable ==
    \A c \in CallIds :
       (/\ calls[c].op = "model" /\ calls[c].pc = "done"
        /\ \A d \in CallIds : ~(calls[d].op = "dropModel" /\ calls[d].name = calls[c].name))
          => calls[c].name \in tables

\* C21: after a model(name) call has rejected (its has-table check or its
\* create-table statement failed), the instance that call registered is not
\* in the definitions.
C21_FailedModelUnregistered ==
    \A c \in CallIds :
       calls[c].op = "model" /\ calls[c].pc = "rejected" /\ calls[c].mdl # 0
          => GetId(calls[c].name) # calls[c].mdl

\* C22: after buildWhere has returned or raised, the criteria the caller
\* passed holds the same values as before the call.
C22_CriteriaUnchanged == fn.pc = "built" => fn.r.where = fn.where

====
